---- MODULE Spec2Model ----
(***************************************************************************)
(* Balance Board Stability Monitor (mec_balance_board.ino).                *)
(*                                                                         *)
(* The sketch is a single-threaded poll loop.  One step of the model is    *)
(* one call of loop(): button poll, optional calibrate(), interval gate,   *)
(* sensor poll, tilt estimate, exponential smoothing, zone classification  *)
(* and the render decision.                                                *)
(*                                                                         *)
(* Numbers.  An acceleration is a record [k, v]: k = "fin" with v in       *)
(* milli-g, k = "nan", or k = "inf" with v the sign.  An angle is an IEEE   *)
(* single-precision float, bit for bit: [k = "f32", neg, m, e] stands for  *)
(* (-1)^neg * m * 2^e with 2^23 <= m < 2^24, or for zero (m = 0), and      *)
(* every operation rounds to nearest, ties to even, as the operations on   *)
(* float do when each is rounded on its own.  A uint32_t is a record       *)
(* [hi, lo] of two 16-bit halves, so that the subtraction of the interval  *)
(* gate keeps its 32-bit width.                                            *)
(***************************************************************************)
EXTENDS Integers, Sequences, FiniteSets

\* ---------------------------------------------------------------- bounds
\* Number of loop() iterations explored.
MaxIter == 3
\* Steady runs: iterations in all, and how many of the first draw any reading.
MaxSteady == 250
FreeIters == 2
\* A host stall, in ms: many sample intervals.
StallMs == 1000
\* Clock runs across the wrap start this many ms before 2^32.
WrapLead == 15

\* ---------------------------------------------------------------- floats
Fin(n) == [k |-> "fin", v |-> n]
NaN == [k |-> "nan", v |-> 0]
Inf == [k |-> "inf", v |-> 1]
IsNaN(a) == a.k = "nan"
IsFinite(a) == a.k \in {"fin", "f32"}

\* 2^23: the least mantissa of a float that is not zero
Hidden == 8388608
F32(neg, m, e) == [k |-> "f32", neg |-> neg, m |-> m, e |-> e]
Zero == F32(FALSE, 0, 0)
One == F32(FALSE, Hidden, -23)

\* the element of a one-element set: an operation Op(a, b) on floats is
\* written Val({OpOf(x, y) : x \in {a}, y \in {b}}), which works its
\* operands out once, before the operation, as the machine does
Val(S) == CHOOSE x \in S : TRUE

RECURSIVE BitLen(_)
\* the number of binary digits of n > 0
BitLen(n) ==
    IF n < 2 THEN 1
    ELSE IF n >= 2 * Hidden THEN 24 + BitLen(n \div (2 * Hidden))
    ELSE 1 + BitLen(n \div 2)

\* the float nearest to m * 2^e (+ something below one unit of m when
\* sticky), ties to even; 0 <= m < 2^30
RoundOf(neg, m, e, sticky) ==
    IF m = 0 THEN Zero
    ELSE Val({ IF bits <= 24
               THEN F32(neg, m * 2^(24 - bits), e - (24 - bits))
               ELSE LET shift == bits - 24
                        q == m \div 2^shift
                        r == m % 2^shift
                        half == 2^(shift - 1)
                        up == r > half
                                 \/ (r = half /\ (sticky \/ q % 2 = 1))
                    IN IF ~up THEN F32(neg, q, e + shift)
                       ELSE IF q + 1 = 2 * Hidden
                            THEN F32(neg, Hidden, e + shift + 1)
                            ELSE F32(neg, q + 1, e + shift)
               : bits \in {BitLen(m)} })

RoundPack(neg, m, e, sticky) ==
    Val({RoundOf(neg, x, y, sticky) : x \in {m}, y \in {e}})

\* |a| < |b| on floats
MagLess(a, b) ==
    IF b.m = 0 THEN FALSE
    ELSE a.m = 0 \/ a.e < b.e \/ (a.e = b.e /\ a.m < b.m)

\* a < b on floats: every comparison with NaN is false
FLess(a, b) ==
    /\ ~IsNaN(a) /\ ~IsNaN(b)
    /\ IF a.neg = b.neg THEN (IF a.neg THEN MagLess(b, a) ELSE MagLess(a, b))
       ELSE a.neg /\ (a.m # 0 \/ b.m # 0)

FNeg(a) == IF IsNaN(a) \/ a.m = 0 THEN a ELSE F32(~a.neg, a.m, a.e)

\* x + y on floats with |x| >= |y| > 0: three more digits and a sticky one
AddOrdered(x, y) ==
    LET d == x.e - y.e
    IN IF d > 26 THEN x
       ELSE LET big == 8 * x.m
                small == (8 * y.m) \div 2^d
                sticky == (8 * y.m) % 2^d # 0
            IN IF x.neg = y.neg
               THEN RoundPack(x.neg, big + small, x.e - 3, sticky)
               ELSE RoundPack(x.neg,
                              big - small - (IF sticky THEN 1 ELSE 0),
                              x.e - 3, sticky)

\* a + b on floats (the operands are angles, squares of angles and weighted
\* angles: never infinite)
AddOf(a, b) ==
    IF IsNaN(a) \/ IsNaN(b) THEN NaN
    ELSE IF a.m = 0 THEN b
    ELSE IF b.m = 0 THEN a
    ELSE IF MagLess(a, b) THEN AddOrdered(b, a) ELSE AddOrdered(a, b)

FAdd(a, b) == Val({AddOf(x, y) : x \in {a}, y \in {b}})

\* a - b on floats
FSub(a, b) == FAdd(a, FNeg(b))

\* a * b on floats: the 48-digit product of the mantissas in halves of 12
MulOf(a, b) ==
    IF IsNaN(a) \/ IsNaN(b) THEN NaN
    ELSE IF a.m = 0 \/ b.m = 0 THEN Zero
    ELSE LET ah == a.m \div 4096
             al == a.m % 4096
             bh == b.m \div 4096
             bl == b.m % 4096
             cross == ah * bl + al * bh
             low == (cross % 4096) * 4096 + al * bl
             hi == ah * bh + cross \div 4096 + low \div (2 * Hidden)
             lo == low % (2 * Hidden)
         IN RoundPack(a.neg # b.neg, 4 * hi + lo \div (Hidden \div 2),
                      a.e + b.e + 22, lo % (Hidden \div 2) # 0)

FMul(a, b) == Val({MulOf(x, y) : x \in {a}, y \in {b}})

\* Squares of 26-digit numbers do not fit the integers of the checker: a
\* number h * Limb^2 + l, 0 <= l < Limb^2
Limb == 16384
Big(h, l) == [h |-> h + l \div (Limb * Limb), l |-> l % (Limb * Limb)]
\* n * n for 0 <= n < 2^29
BigSq(n) ==
    LET nh == n \div Limb
        nl == n % Limb
        mid == 2 * nh * nl
    IN Big(nh * nh + mid \div Limb, (mid % Limb) * Limb + nl * nl)
BigLeq(a, b) == a.h < b.h \/ (a.h = b.h /\ a.l <= b.l)

RECURSIVE SqrtSearch(_, _, _)
\* the largest r in lo..hi with r*r <= n
SqrtSearch(n, lo, hi) ==
    IF lo >= hi THEN lo
    ELSE Val({ IF BigLeq(sq, n) THEN SqrtSearch(n, (lo + hi + 1) \div 2, hi)
                                ELSE SqrtSearch(n, lo, (lo + hi + 1) \div 2 - 1)
               : sq \in {BigSq((lo + hi + 1) \div 2)} })

RECURSIVE SqrtSmall(_, _)
\* the largest r with r*r <= n, for n < 2^30: Newton's iteration, downwards
\* from an x that is not below it
SqrtSmall(n, x) ==
    Val({ IF y >= x THEN x ELSE SqrtSmall(n, y)
          : y \in {(x + n \div x) \div 2} })

\* the largest r with r*r <= n, for n of 50 to 52 digits.  The leading 15
\* digits of r, top, are the root of the leading digits of n; the others
\* are within 2 of (n - (2048 * top)^2) / (2 * 2048 * top).
RootNear(n, top) ==
    Val({ SqrtSearch(n, g - 2, g + 2)
          : g \in {2048 * top
                      + ((64 * n.h - top * top) * 1024 + n.l \div 4096)
                            \div top} })
BigSqrt(n) == Val({ RootNear(n, top) : top \in {SqrtSmall(64 * n.h, 32768)} })

\* the float nearest to the root of n * 2^e, r the largest with r*r <= n
RoundRoot(n, r, e) == RoundPack(FALSE, r, e, BigSq(r) # n)

\* sqrtf(a) for a >= 0: the root of n = m * 2^26 or m * 2^27 (26 digits, the
\* exponent left even), rounded
SqrtOf(a) ==
    IF IsNaN(a) \/ a.neg THEN NaN
    ELSE IF a.m = 0 THEN Zero
    ELSE LET k == IF a.e % 2 = 0 THEN 26 ELSE 27
         IN Val({ Val({ RoundRoot(n, r, (a.e - k) \div 2)
                        : r \in {BigSqrt(n)} })
                  : n \in {IF k = 26
                           THEN Big(a.m \div 4, (a.m % 4) * Limb * 4096)
                           ELSE Big(a.m \div 2,
                                    (a.m % 2) * 2 * Limb * 4096)} })

FSqrt(a) == Val({SqrtOf(x) : x \in {a}})

\* sqrtf(a*a + b*b)
sqrtfSumSq(a, b) == FSqrt(FAdd(FMul(a, a), FMul(b, b)))

\* atan2f(y, x) * 180.0f / PI as a float, on the accelerations the sensor
\* model produces (milli-g).  atan2f is NaN iff an argument is NaN;
\* atan2f(+-0, +0) = 0; atan2f(y > 0, 0) = 90 deg; atan2f(+Inf, finite) =
\* 90 deg; atan2f(0.05, 1) gives 2.8624053 deg; atan2f(0.2, 1) gives
\* 11.3099327 deg.
atan2fDeg(y, x) ==
    IF IsNaN(y) \/ IsNaN(x) THEN NaN
    ELSE IF y.k = "inf" /\ x.k = "fin" THEN F32(y.v < 0, 11796480, -17)
    ELSE CASE y.v = 0 /\ x.v >= 0 -> Zero
           [] y.v > 0 /\ x.v = 0 -> F32(FALSE, 11796480, -17)
           [] y.v < 0 /\ x.v = 0 -> F32(TRUE, 11796480, -17)
           [] y.v = 50 /\ x.v = 1000 -> F32(FALSE, 12005798, -22)
           [] y.v = 200 /\ x.v = 1000 -> F32(FALSE, 11859324, -20)

\* ---------------------------------------------------------------- uint32_t
Half == 65536
U32(h, l) == [hi |-> h, lo |-> l]
\* a + n (mod 2^32) for 0 <= n < 65536
U32Add(a, n) ==
    LET l == a.lo + n
    IN IF l < Half THEN U32(a.hi, l) ELSE U32((a.hi + 1) % Half, l - Half)
\* a - b (mod 2^32)
U32Sub(a, b) ==
    LET borrow == IF a.lo < b.lo THEN 1 ELSE 0
    IN U32((a.hi - b.hi - borrow + 2 * Half) % Half,
           (a.lo - b.lo + Half) % Half)
\* a < n for 0 <= n < 65536
U32Less(a, n) == a.hi = 0 /\ a.lo < n

\* ---------------------------------------------------------------- config
SMOOTH_ALPHA == F32(FALSE, 15099494, -24)    \* 0.90f
GREEN_MAX_DEG == One                         \* 1.0f
YELLOW_MAX_DEG == F32(FALSE, 12582912, -22)  \* 3.0f
SAMPLE_INTERVAL_MS == 20
CALIBRATED_DELAY_MS == 500  \* delay(500) in calibrate
SPLASH_DELAY_MS == 1000     \* delay(1000) in setup

\* ---------------------------------------------------------------- inputs
Accel(x, y, z) == [ax |-> x, ay |-> y, az |-> z]
\* what AtomS3.Imu.update() may read
Samples ==
    { Accel(Fin(0), Fin(0), Fin(1000)),      \* level: 0 deg
      Accel(Fin(0), Fin(200), Fin(1000)),    \* 11.31 deg about Y
      Accel(Fin(1000), Fin(0), Fin(0)),      \* az = 0: 90 deg
      Accel(NaN, Fin(0), Fin(1000)) }        \* invalid reading
\* the sensor driver's data before the first successful update
ZeroData == Accel(Fin(0), Fin(0), Fin(0))
\* host-loop time between two calls of loop(), in ms
Advance == {10, 20}

IsFiniteSample(s) == IsFinite(s.ax) /\ IsFinite(s.ay) /\ IsFinite(s.az)

\* ---------------------------------------------------------------- state
VARIABLES
    smoothedTiltDeg,    \* float
    lastSampleMs,       \* uint32_t
    lastZone,           \* -1, 0, 1, 2
    calibrationTiltX,   \* float
    calibrationTiltY,   \* float
    isCalibrated,       \* bool
    millis,             \* the millisecond clock, uint32_t
    imuData,            \* the sensor driver's latest reading
    iter,               \* calls of loop() so far
    \* what the latest call of loop() did
    now,                \* millis() read at its start
    btn,                \* BtnA.wasPressed()
    calFresh,           \* result of the Imu.update() made for calibrate
    calSample,          \* the reading passed to calibrate
    tick,               \* "none", "gated", "skipped" or "accepted"
    imuUpdated,         \* result of the Imu.update() of the sampling tick
    render,             \* the render calls made, in order
    \* history
    calBefore,          \* the globals the latest calibrate overwrote
    awaitRedraw,        \* calibrate ran and no drawScreen has followed yet
    acqMs,              \* wall-clock time of the latest accepted reading
    acqCount,           \* accepted readings so far (0, 1, 2 = two or more)
    acqGap,             \* wall-clock time between the latest two of them
    screen,             \* the latest full-screen picture drawn
    sincePass,          \* true ms from the millis() read of the latest gate
                        \* pass (from boot before the first) to the clock
    elapsedAtGate       \* the same at the latest millis() read of loop()

vars == << smoothedTiltDeg, lastSampleMs, lastZone, calibrationTiltX,
           calibrationTiltY, isCalibrated, millis, imuData, iter, now, btn,
           calFresh, calSample, tick, imuUpdated, render, calBefore,
           awaitRedraw, acqMs, acqCount, acqGap, screen, sincePass,
           elapsedAtGate >>

\* ---------------------------------------------------------------- render
CalibrationConfirmed == [type |-> "CalibrationConfirmed", zone |-> -1, mag |-> Zero]
FullRedraw(zone, tiltDeg) == [type |-> "FullRedraw", zone |-> zone, mag |-> tiltDeg]
PartialUpdate(zone, tiltDeg) == [type |-> "PartialUpdate", zone |-> zone, mag |-> tiltDeg]

\* ---------------------------------------------------------------- pipeline
\* the estimator without the "if (isCalibrated)" block
computeTiltIgnoresCalibration(ax, ay, az, isCal, calX, calY) ==
    sqrtfSumSq(atan2fDeg(ax, az), atan2fDeg(ay, az))

\* computeTiltMagnitudeDeg, with the calibration globals it reads as arguments
computeTiltMagnitudeDeg(ax, ay, az, isCal, calX, calY) ==
    LET rawX == atan2fDeg(ax, az)
        rawY == atan2fDeg(ay, az)
        tiltX == IF isCal THEN FSub(rawX, calX) ELSE rawX
        tiltY == IF isCal THEN FSub(rawY, calY) ELSE rawY
    IN sqrtfSumSq(tiltX, tiltY)

\* calibrate that leaves lastZone as it is (no forced redraw)
calibrateKeepsZone(ax, ay, az) ==
    [ calibrationTiltX |-> atan2fDeg(ax, az),
      calibrationTiltY |-> atan2fDeg(ay, az),
      isCalibrated |-> TRUE,
      render |-> << CalibrationConfirmed >>,
      delay |-> CALIBRATED_DELAY_MS,
      lastZone |-> lastZone,
      smoothedTiltDeg |-> smoothedTiltDeg,
      lastSampleMs |-> lastSampleMs ]

\* calibrate that stores the two tilts in each other's place
calibrateSwapped(ax, ay, az) ==
    [ calibrationTiltX |-> atan2fDeg(ay, az),
      calibrationTiltY |-> atan2fDeg(ax, az),
      isCalibrated |-> TRUE,
      render |-> << CalibrationConfirmed >>,
      delay |-> CALIBRATED_DELAY_MS,
      lastZone |-> -1,
      smoothedTiltDeg |-> smoothedTiltDeg,
      lastSampleMs |-> lastSampleMs ]

\* calibrate that stores the tilt relative to the reference in force
calibrateRelative(ax, ay, az) ==
    [ calibrationTiltX |-> IF isCalibrated
                           THEN FSub(atan2fDeg(ax, az), calibrationTiltX)
                           ELSE atan2fDeg(ax, az),
      calibrationTiltY |-> IF isCalibrated
                           THEN FSub(atan2fDeg(ay, az), calibrationTiltY)
                           ELSE atan2fDeg(ay, az),
      isCalibrated |-> TRUE,
      render |-> << CalibrationConfirmed >>,
      delay |-> CALIBRATED_DELAY_MS,
      lastZone |-> -1,
      smoothedTiltDeg |-> smoothedTiltDeg,
      lastSampleMs |-> lastSampleMs ]

\* calibrate that also restarts the smoothing filter
calibrateResetsFilter(ax, ay, az) ==
    [ calibrationTiltX |-> atan2fDeg(ax, az),
      calibrationTiltY |-> atan2fDeg(ay, az),
      isCalibrated |-> TRUE,
      render |-> << CalibrationConfirmed >>,
      delay |-> CALIBRATED_DELAY_MS,
      lastZone |-> -1,
      smoothedTiltDeg |-> Zero,
      lastSampleMs |-> lastSampleMs ]

\* calibrate: the globals it assigns and those it leaves (smoothedTiltDeg,
\* lastSampleMs), the render call and the delay it makes
calibrate(ax, ay, az) ==
    [ calibrationTiltX |-> atan2fDeg(ax, az),
      calibrationTiltY |-> atan2fDeg(ay, az),
      isCalibrated |-> TRUE,
      render |-> << CalibrationConfirmed >>,
      delay |-> CALIBRATED_DELAY_MS,
      lastZone |-> -1,
      smoothedTiltDeg |-> smoothedTiltDeg,
      lastSampleMs |-> lastSampleMs ]

\* the filter with SMOOTH_ALPHA on the new value too (weights sum over 1)
smoothGainNotNormalised(smoothed, instTiltDeg) ==
    FAdd(FMul(SMOOTH_ALPHA, smoothed), FMul(SMOOTH_ALPHA, instTiltDeg))

\* the filter with the two weights exchanged
smoothWeightsSwapped(smoothed, instTiltDeg) ==
    FAdd(FMul(FSub(One, SMOOTH_ALPHA), smoothed),
         FMul(SMOOTH_ALPHA, instTiltDeg))

\* SMOOTH_ALPHA * smoothedTiltDeg + (1.0f - SMOOTH_ALPHA) * instTiltDeg:
\* two products and a sum, each rounded to a float
smooth(smoothed, instTiltDeg) ==
    FAdd(FMul(SMOOTH_ALPHA, smoothed),
         FMul(FSub(One, SMOOTH_ALPHA), instTiltDeg))

\* the zone with <= in place of <
decideZoneInclusive(smoothed) ==
    IF IsFinite(smoothed) /\ ~FLess(GREEN_MAX_DEG, smoothed) THEN 0
    ELSE IF IsFinite(smoothed) /\ ~FLess(YELLOW_MAX_DEG, smoothed) THEN 1
    ELSE 2

\* "Decide zone"
decideZone(smoothed) ==
    IF FLess(smoothed, GREEN_MAX_DEG) THEN 0
    ELSE IF FLess(smoothed, YELLOW_MAX_DEG) THEN 1
    ELSE 2

\* the gate with its operands exchanged: lastSampleMs - now
gateOperandsSwapped(t, last) == U32Less(U32Sub(last, t), SAMPLE_INTERVAL_MS)

\* the gate as a deadline comparison: now < lastSampleMs + SAMPLE_INTERVAL_MS
gateAgainstDeadline(t, last) ==
    LET deadline == U32Add(last, SAMPLE_INTERVAL_MS)
    IN t.hi < deadline.hi \/ (t.hi = deadline.hi /\ t.lo < deadline.lo)

\* now - lastSampleMs < SAMPLE_INTERVAL_MS: loop returns
gateClosed(t, last) == U32Less(U32Sub(t, last), SAMPLE_INTERVAL_MS)

\* the tick goes on whatever Imu.update() returned
imuNeverSkipped(updated) == FALSE

\* !imuUpdated: loop returns
imuSkipped(updated) == ~updated

\* drawScreen called with the zone drawn before
renderCarriesOldZone(zone, last, tiltDeg) ==
    IF zone # last THEN FullRedraw(last, tiltDeg)
    ELSE PartialUpdate(zone, tiltDeg)

\* drawScreen on every accepted reading
renderAlwaysFull(zone, last, tiltDeg) == FullRedraw(zone, tiltDeg)

\* zone != lastZone: drawScreen, else the numeric band rewrite
renderDecision(zone, last, tiltDeg) ==
    IF zone # last THEN FullRedraw(zone, tiltDeg)
                   ELSE PartialUpdate(zone, tiltDeg)

\* the full-screen picture drawScreen leaves (its statusText)
screenOfZone(zone) ==
    CASE zone = 0 -> "STABLE"
      [] zone = 1 -> "MOVING"
      [] OTHER -> "WOBBLY"

\* the timestamp advanced by one interval (a fixed schedule)
stampOnSchedule(t, last, updated) == U32Add(last, SAMPLE_INTERVAL_MS)

\* the timestamp taken only when the sensor had new data
stampWhenUpdated(t, last, updated) == IF updated THEN t ELSE last

\* lastSampleMs = now, made before the sensor is polled: whatever the poll
\* returns
stampAfterGate(t, last, updated) == t

\* ---------------------------------------------------------------- loop()
\* dt: host time since the previous call; pressed: BtnA.wasPressed();
\* u1, s1: result and reading of the Imu.update() made for calibrate;
\* u2, s2: result and reading of the Imu.update() of the sampling tick.
loop(dt, pressed, u1, s1, u2, s2) ==
    \* "now", and what calibrate does with the data of its Imu.update()
    \E t \in {U32Add(millis, dt)}, data1 \in {IF u1 THEN s1 ELSE imuData} :
    \E cal \in {calibrate(data1.ax, data1.ay, data1.az)} :
    LET \* button block
        imuA == IF pressed THEN data1 ELSE imuData
        calX == IF pressed THEN cal.calibrationTiltX ELSE calibrationTiltX
        calY == IF pressed THEN cal.calibrationTiltY ELSE calibrationTiltY
        isCal == IF pressed THEN cal.isCalibrated ELSE isCalibrated
        zoneA == IF pressed THEN cal.lastZone ELSE lastZone
        smA == IF pressed THEN cal.smoothedTiltDeg ELSE smoothedTiltDeg
        lastA == IF pressed THEN cal.lastSampleMs ELSE lastSampleMs
        screenA == IF pressed THEN "CALIBRATED" ELSE screen
        delayA == IF pressed THEN cal.delay ELSE 0
        elapsed == sincePass + dt
        renderA == IF pressed THEN cal.render ELSE << >>
        wall == IF pressed THEN U32Add(t, cal.delay) ELSE t
        \* sampling tick
        closed == gateClosed(t, lastA)
        skipped == imuSkipped(u2)
        inst == computeTiltMagnitudeDeg(s2.ax, s2.ay, s2.az, isCal, calX, calY)
    IN /\ iter' = iter + 1
       /\ elapsedAtGate' = elapsed
       /\ sincePass' = IF closed THEN elapsed + delayA ELSE delayA
       /\ now' = t
       /\ btn' = pressed
       /\ calFresh' = (pressed /\ u1)
       /\ calSample' = IF pressed THEN data1 ELSE ZeroData
       /\ calibrationTiltX' = calX
       /\ calibrationTiltY' = calY
       /\ isCalibrated' = isCal
       /\ millis' = wall
       /\ calBefore' = IF pressed
                       THEN [x |-> calibrationTiltX, y |-> calibrationTiltY,
                             set |-> isCalibrated, zone |-> lastZone]
                       ELSE calBefore
       /\ imuUpdated' = (~closed /\ u2)
       /\ IF closed
          THEN /\ tick' = "gated"
               /\ imuData' = imuA
               /\ lastZone' = zoneA
               /\ render' = renderA
               /\ awaitRedraw' = (pressed \/ awaitRedraw)
               /\ screen' = screenA
               /\ smoothedTiltDeg' = smA
               /\ lastSampleMs' = lastA
               /\ UNCHANGED << acqMs, acqCount, acqGap >>
          ELSE /\ lastSampleMs' = stampAfterGate(t, lastA, u2)
               /\ IF skipped
                  THEN /\ tick' = "skipped"
                       /\ imuData' = imuA
                       /\ lastZone' = zoneA
                       /\ render' = renderA
                       /\ awaitRedraw' = (pressed \/ awaitRedraw)
                       /\ screen' = screenA
                       /\ smoothedTiltDeg' = smA
                       /\ UNCHANGED << acqMs, acqCount, acqGap >>
                  ELSE \* the new smoothedTiltDeg, computed once
                       \E sm \in {smooth(smA, inst)} :
                       LET zone == decideZone(sm)
                           ev == renderDecision(zone, zoneA, sm)
                       IN
                       /\ tick' = "accepted"
                       /\ imuData' = s2
                       /\ smoothedTiltDeg' = sm
                       /\ lastZone' = zone
                       /\ render' = Append(renderA, ev)
                       /\ screen' = IF ev.type = "FullRedraw"
                                    THEN screenOfZone(ev.zone) ELSE screenA
                       /\ awaitRedraw' = ((pressed \/ awaitRedraw)
                                          /\ ev.type # "FullRedraw")
                       /\ acqMs' = wall
                       /\ acqGap' = IF acqCount > 0 THEN U32Sub(wall, acqMs)
                                                    ELSE U32(0, 0)
                       /\ acqCount' = IF acqCount < 2 THEN acqCount + 1 ELSE 2

\* the state when setup() returns
Init ==
    /\ smoothedTiltDeg = Zero
    /\ lastSampleMs = U32(0, 0)
    /\ lastZone = -1
    /\ calibrationTiltX = Zero
    /\ calibrationTiltY = Zero
    /\ isCalibrated = FALSE
    /\ millis = U32(0, SPLASH_DELAY_MS)
    /\ imuData = ZeroData
    /\ iter = 0
    /\ now = U32(0, 0)
    /\ btn = FALSE
    /\ calFresh = FALSE
    /\ calSample = ZeroData
    /\ tick = "none"
    /\ imuUpdated = FALSE
    /\ render = << >>
    /\ calBefore = [x |-> Zero, y |-> Zero, set |-> FALSE, zone |-> -1]
    /\ awaitRedraw = FALSE
    /\ acqMs = U32(0, 0)
    /\ acqCount = 0
    /\ acqGap = U32(0, 0)
    /\ screen = "SPLASH"
    /\ sincePass = SPLASH_DELAY_MS
    /\ elapsedAtGate = 0

\* the inputs of one call of loop(): a reading is drawn only where an
\* Imu.update() returns true (otherwise the driver's data stays as it is)
Inputs ==
    { i \in [pressed : BOOLEAN, u1 : BOOLEAN, s1 : Samples \cup {ZeroData},
             u2 : BOOLEAN, s2 : Samples \cup {ZeroData}] :
        /\ i.u1 => i.pressed
        /\ (i.s1 \in Samples) <=> i.u1
        /\ (i.s2 \in Samples) <=> i.u2 }

Next ==
    /\ iter < MaxIter
    /\ \E dt \in Advance, i \in Inputs :
          loop(dt, i.pressed, i.u1, i.s1, i.u2, i.s2)

Spec == Init /\ [][Next]_vars

\* Steady runs: no button press, loop() called once per interval, the sensor
\* has new data on every call; after the first FreeIters calls the reading
\* stays what it is.
SteadySamples == { s \in Samples : IsFiniteSample(s) }

SteadyNext ==
    /\ iter < MaxSteady
    /\ \E s \in SteadySamples :
          /\ iter < FreeIters \/ s = imuData
          /\ loop(SAMPLE_INTERVAL_MS, FALSE, FALSE, ZeroData, TRUE, s)

SpecSteady == Init /\ [][SteadyNext]_vars

\* Host runs: the host may also stall for StallMs between two calls of
\* loop(); the board lies level.
Level == Accel(Fin(0), Fin(0), Fin(1000))

HostInputs ==
    { i \in Inputs : i.s1 \in {Level, ZeroData} /\ i.s2 \in {Level, ZeroData} }

HostNext ==
    /\ iter < MaxIter
    /\ \E dt \in Advance \cup {StallMs}, i \in HostInputs :
          loop(dt, i.pressed, i.u1, i.s1, i.u2, i.s2)

SpecHost == Init /\ [][HostNext]_vars

\* Runs across the wrap of millis(): the board has run for 2^32 - WrapLead
\* ms, level and uncalibrated, showing STABLE; the last call of loop()
\* accepted a reading, sinceLast ms ago.
WrapInit ==
    \E sinceLast \in {0, 10} :
        /\ smoothedTiltDeg = Zero
        /\ millis = U32(Half - 1, Half - WrapLead)
        /\ lastSampleMs = U32Sub(millis, U32(0, sinceLast))
        /\ lastZone = 0
        /\ calibrationTiltX = Zero
        /\ calibrationTiltY = Zero
        /\ isCalibrated = FALSE
        /\ imuData = Level
        /\ iter = 0
        /\ now = lastSampleMs
        /\ btn = FALSE
        /\ calFresh = FALSE
        /\ calSample = ZeroData
        /\ tick = "accepted"
        /\ imuUpdated = TRUE
        /\ render = << PartialUpdate(0, Zero) >>
        /\ calBefore = [x |-> Zero, y |-> Zero, set |-> FALSE, zone |-> 0]
        /\ awaitRedraw = FALSE
        /\ acqMs = lastSampleMs
        /\ acqCount = 2
        /\ acqGap = U32(0, SAMPLE_INTERVAL_MS)
        /\ screen = "STABLE"
        /\ sincePass = sinceLast
        /\ elapsedAtGate = SAMPLE_INTERVAL_MS

WrapNext ==
    /\ iter < MaxIter
    /\ \E dt \in Advance, i \in HostInputs :
          loop(dt, i.pressed, i.u1, i.s1, i.u2, i.s2)

SpecWrap == WrapInit /\ [][WrapNext]_vars

\* ---------------------------------------------------------------- claims
IsTickEvent(e) == e.type \in {"FullRedraw", "PartialUpdate"}
TickEvents == SelectSeq(render, IsTickEvent)
HasPartial == \E k \in 1..Len(render) : render[k].type = "PartialUpdate"
HasFull == \E k \in 1..Len(render) : render[k].type = "FullRedraw"
\* the interval test of the step being taken, from the clock value the step
\* read and the timestamp it started with
IntervalNotElapsed == U32Less(U32Sub(now', lastSampleMs), SAMPLE_INTERVAL_MS)
CoreUnchanged ==
    UNCHANGED << smoothedTiltDeg, lastZone, lastSampleMs, calibrationTiltX,
                 calibrationTiltY, isCalibrated >>

\* C1 (as stated): an iteration whose interval has not elapsed changes none
\* of smoothedTiltDeg, lastZone, lastSampleMs, calibrationTiltX,
\* calibrationTiltY, isCalibrated and makes no render call, whatever the
\* button and the sensor do in it.
C1_GatedIterationNoOp ==
    [][IntervalNotElapsed => (CoreUnchanged /\ render' = << >>)]_vars

\* C1 (amended): an iteration whose interval has not elapsed and in which the
\* button was not pressed changes none of smoothedTiltDeg, lastZone,
\* lastSampleMs, calibrationTiltX, calibrationTiltY, isCalibrated and makes
\* no render call, whatever the sensor does in it.
C1_GatedIterationWithoutButtonNoOp ==
    [][(IntervalNotElapsed /\ ~btn') => (CoreUnchanged /\ render' = << >>)]_vars

\* a gated iteration without button press, after a reading was rendered
C1_Witness == tick = "gated" /\ ~btn /\ lastZone # -1 /\ acqCount > 0

\* C2 (as stated): in an iteration in which the button was pressed,
\* CalibrationConfirmed is the only render call.
C2_CalibrationConfirmedOnly == btn => render = << CalibrationConfirmed >>

\* C2 (amended): in an iteration in which the button was pressed,
\* CalibrationConfirmed is the first render call and no PartialUpdate is
\* made; it is the only render call when the interval has not elapsed or the
\* sensor has no new data, and otherwise exactly one FullRedraw follows it.
C2_CalibrationConfirmedFirst ==
    btn => /\ Len(render) >= 1
           /\ render[1] = CalibrationConfirmed
           /\ ~HasPartial
           /\ (tick # "accepted" => render = << CalibrationConfirmed >>)
           /\ (tick = "accepted" =>
                  /\ Len(render) = 2
                  /\ render[2] = FullRedraw(lastZone, smoothedTiltDeg))

\* a button press in an iteration that goes on to accept a reading, in the
\* zone that was on screen before
C2_Witness ==
    btn /\ tick = "accepted" /\ Len(render) = 2 /\ calBefore.zone = lastZone

\* C3: from a calibration until the next drawScreen no PartialUpdate is made
\* and no reading is accepted without drawScreen: the first reading accepted
\* after a calibration produces FullRedraw.
C3_CalibrationForcesFullRedraw ==
    awaitRedraw => (tick # "accepted" /\ ~HasPartial)

\* a calibration made in an earlier iteration, followed by an accepted
\* reading whose zone is the one rendered before the calibration
C3_Witness ==
    /\ ~btn /\ tick = "accepted" /\ isCalibrated /\ ~awaitRedraw
    /\ calBefore.zone = lastZone
    /\ render = << FullRedraw(lastZone, smoothedTiltDeg) >>
    /\ acqCount = 2 /\ iter = 3

\* C4: an accepted reading makes exactly one of FullRedraw and PartialUpdate,
\* carrying the zone of the new smoothed value: FullRedraw iff that zone
\* differs from the last rendered zone (lastZone, or none after startup or a
\* calibration), PartialUpdate otherwise; no other iteration makes either.
C4_OneRenderPerAcceptedSample ==
    [][LET ticks == SelectSeq(render', IsTickEvent)
           zone == decideZone(smoothedTiltDeg')
           rendered == IF btn' THEN -1 ELSE lastZone
       IN IF tick' = "accepted"
          THEN /\ Len(ticks) = 1
               /\ ticks[1].zone = zone
               /\ ticks[1].mag = smoothedTiltDeg'
               /\ (ticks[1].type = "FullRedraw") <=> (zone # rendered)
          ELSE ticks = << >>]_vars

\* a third accepted reading in one zone: PartialUpdate again
C4_Witness ==
    /\ tick = "accepted" /\ iter = 3 /\ ~isCalibrated
    /\ render = << PartialUpdate(lastZone, smoothedTiltDeg) >>

\* C5 (as stated): an iteration whose interval has elapsed and whose sensor
\* poll reports no new data leaves smoothedTiltDeg, lastZone and the
\* calibration reference unchanged and makes no render call.
C5_SkippedTickNoOp ==
    [][(tick' # "gated" /\ ~imuUpdated') =>
          /\ UNCHANGED << smoothedTiltDeg, lastZone, calibrationTiltX,
                          calibrationTiltY, isCalibrated >>
          /\ render' = << >>]_vars

\* C5 (amended): an iteration whose interval has elapsed and whose sensor
\* poll reports no new data leaves smoothedTiltDeg unchanged; when the button
\* was not pressed in it, it also leaves lastZone and the calibration
\* reference unchanged and makes no render call.
C5_SkippedTickWithoutButtonNoOp ==
    [][(tick' # "gated" /\ ~imuUpdated') =>
          /\ UNCHANGED smoothedTiltDeg
          /\ ~btn' =>
                /\ UNCHANGED << lastZone, calibrationTiltX,
                                calibrationTiltY, isCalibrated >>
                /\ render' = << >>]_vars

\* a skipped tick after a reading was smoothed and rendered
C5_Witness ==
    /\ tick = "skipped" /\ ~btn /\ lastZone # -1
    /\ smoothedTiltDeg # Zero

\* C6: two consecutive accepted readings are acquired at least
\* SAMPLE_INTERVAL_MS of wall-clock time apart.
C6_AcceptedSamplesIntervalApart ==
    (tick = "accepted" /\ acqCount = 2) =>
        ~U32Less(acqGap, SAMPLE_INTERVAL_MS)

\* C7: a calibration whose sensor poll reports no new data leaves the
\* reference and the is-set flag unchanged.
C7_FailedAcquisitionKeepsReference ==
    (btn /\ ~calFresh) =>
        /\ calibrationTiltX = calBefore.x
        /\ calibrationTiltY = calBefore.y
        /\ isCalibrated = calBefore.set

\* C8: smoothedTiltDeg is finite in every reachable state.
C8_SmoothedAlwaysFinite == IsFinite(smoothedTiltDeg)

\* readings for the claims about the estimator and the calibration alone
ProbeSamples ==
    Samples \cup
    { ZeroData,
      Accel(Fin(50), Fin(0), Fin(1000)),
      Accel(Fin(50), Fin(200), Fin(1000)),
      Accel(Fin(0), Fin(-1000), Fin(0)),
      Accel(Inf, Fin(0), Fin(1000)) }

\* C9: calibrate on a finite reading, then the tilt magnitude of the same
\* reading is 0, whatever reference was stored before: in every run right
\* after a calibration, and for every probe reading.
C9_CalibrationZeroing ==
    /\ (btn /\ IsFiniteSample(calSample)) =>
          computeTiltMagnitudeDeg(calSample.ax, calSample.ay, calSample.az,
              isCalibrated, calibrationTiltX, calibrationTiltY) = Zero
    /\ \A s \in ProbeSamples :
          ~IsNaN(s.ax) /\ ~IsNaN(s.ay) /\ ~IsNaN(s.az) =>
              LET c == calibrate(s.ax, s.ay, s.az)
              IN computeTiltMagnitudeDeg(s.ax, s.ay, s.az, c.isCalibrated,
                     c.calibrationTiltX, c.calibrationTiltY) = Zero

\* a calibration on a tilted reading over an earlier, different reference
C9_Witness ==
    /\ btn /\ IsFiniteSample(calSample) /\ calBefore.set
    /\ calibrationTiltX = F32(FALSE, 11796480, -17)
    /\ calBefore.x # calibrationTiltX

\* C10: after calibrate the reference is the raw tilt of the reading it was
\* given (the estimator's formula, no earlier reference subtracted) and the
\* is-set flag is true, both components set together; so the reference
\* depends on the latest calibrating reading alone, and the reference is
\* zero exactly as long as no calibration was made.
C10_CalibrateStoresRawTilt ==
    /\ btn => /\ calibrationTiltX = atan2fDeg(calSample.ax, calSample.az)
              /\ calibrationTiltY = atan2fDeg(calSample.ay, calSample.az)
              /\ isCalibrated
    /\ ~isCalibrated => (calibrationTiltX = Zero /\ calibrationTiltY = Zero)

\* a second calibration, on a reading other than the first one's
C10_Witness ==
    /\ btn /\ calBefore.set
    /\ << calBefore.x, calBefore.y >> # << calibrationTiltX, calibrationTiltY >>
    /\ calibrationTiltY = F32(FALSE, 11859324, -20)

\* C11: the reference is zero and unset at startup; an iteration without a
\* button press leaves calibrationTiltX, calibrationTiltY and isCalibrated
\* unchanged, whether it is gated, skipped or accepted; isCalibrated never
\* goes back to false; and the estimate an accepted reading feeds to the
\* filter while isCalibrated is true is the magnitude of the raw tilts minus
\* the reference.
C11_ReferenceOnlyByCalibration ==
    /\ (~isCalibrated /\ calibrationTiltX = Zero /\ calibrationTiltY = Zero)
    /\ [][/\ ~btn' => UNCHANGED << calibrationTiltX, calibrationTiltY,
                                   isCalibrated >>
          /\ isCalibrated => isCalibrated'
          /\ (tick' = "accepted" /\ isCalibrated') =>
                LET dx == FSub(atan2fDeg(imuData'.ax, imuData'.az),
                               calibrationTiltX')
                    dy == FSub(atan2fDeg(imuData'.ay, imuData'.az),
                               calibrationTiltY')
                IN smoothedTiltDeg' =
                       smooth(smoothedTiltDeg, sqrtfSumSq(dx, dy))]_vars

\* a reading accepted, without button press, under a reference that is not
\* zero and was set over an earlier one
C11_Witness ==
    /\ tick = "accepted" /\ ~btn /\ isCalibrated /\ calBefore.set
    /\ calibrationTiltY = F32(FALSE, 11859324, -20) /\ IsFinite(smoothedTiltDeg)

\* C12: an iteration in which calibrate runs leaves the filter's value as it
\* was unless its own tick accepts a reading, and then the filter is updated
\* from the value it had before the calibration (with the estimate under the
\* new reference); lastSampleMs is left as it was for the interval test and
\* is changed only by the tick's own gate pass.
C12_CalibrationKeepsFilterValue ==
    [][btn' =>
          /\ smoothedTiltDeg' =
                IF tick' = "accepted"
                THEN smooth(smoothedTiltDeg,
                            computeTiltMagnitudeDeg(imuData'.ax, imuData'.ay,
                                imuData'.az, isCalibrated', calibrationTiltX',
                                calibrationTiltY'))
                ELSE smoothedTiltDeg
          /\ (tick' = "gated") <=> IntervalNotElapsed
          /\ lastSampleMs' = IF tick' = "gated" THEN lastSampleMs ELSE now']_vars

\* a calibration in a gated iteration, the filter holding a value from an
\* earlier reading
C12_Witness ==
    /\ btn /\ tick = "gated" /\ acqCount > 0
    /\ IsFinite(smoothedTiltDeg) /\ smoothedTiltDeg # Zero

\* magnitudes in increasing order: 0, a small one, the floats next to and
\* at the two thresholds, and the largest one possible (254.558 deg)
ProbeMagnitudes ==
    << Zero, F32(FALSE, Hidden, -40),
       F32(FALSE, 16777215, -24), One, F32(FALSE, 8388609, -23),
       F32(FALSE, 12582911, -22), F32(FALSE, 12582912, -22),
       F32(FALSE, 12582913, -22), F32(FALSE, 16682742, -16) >>

\* a magnitude (never negative) below 1.0 = 2^23 * 2^-23
BelowOne(a) == a.m = 0 \/ a.e <= -24
\* a magnitude (never negative) below 3.0 = 12582912 * 2^-22
BelowThree(a) == a.m = 0 \/ a.e <= -23 \/ (a.e = -22 /\ a.m < 12582912)

\* C13 (steady runs, rising and falling through both thresholds): the zone
\* of an accepted reading is 0 for a smoothed magnitude < GREEN_MAX_DEG, 1
\* for GREEN_MAX_DEG <= magnitude < YELLOW_MAX_DEG and 2 for magnitude >=
\* YELLOW_MAX_DEG, whatever the zone was before; a magnitude equal to a
\* threshold is in the higher zone; the zone never decreases as the
\* magnitude increases.
C13_ZoneClassifier ==
    /\ tick = "accepted" =>
          /\ IsFinite(smoothedTiltDeg) /\ ~smoothedTiltDeg.neg
          /\ lastZone = IF BelowOne(smoothedTiltDeg) THEN 0
                        ELSE IF BelowThree(smoothedTiltDeg) THEN 1
                        ELSE 2
    /\ << decideZone(ProbeMagnitudes[3]), decideZone(GREEN_MAX_DEG),
          decideZone(ProbeMagnitudes[6]), decideZone(YELLOW_MAX_DEG) >>
          = << 0, 1, 1, 2 >>
    /\ \A i, j \in DOMAIN ProbeMagnitudes :
          /\ decideZone(ProbeMagnitudes[i]) \in {0, 1, 2}
          /\ i <= j => decideZone(ProbeMagnitudes[i])
                          <= decideZone(ProbeMagnitudes[j])

\* the magnitude falling from the top zone into the middle one
C13_Witness ==
    /\ tick = "accepted" /\ lastZone = 1
    /\ imuData = Accel(Fin(0), Fin(0), Fin(1000))
    /\ render = << FullRedraw(1, smoothedTiltDeg) >>

\* the update rule, written out
EmaOf(smoothed, inst) ==
    LET alpha == F32(FALSE, 15099494, -24)
        kept == FMul(alpha, smoothed)
        added == FMul(FSub(One, alpha), inst)
    IN FAdd(kept, added)

\* C14: the filter starts at 0; an iteration whose sensor poll of the tick
\* returned new data replaces the filter's value by alpha * old +
\* (1 - alpha) * the estimate of the reading just polled, once; every
\* other iteration leaves the filter's value unchanged; the count of
\* accepted readings goes up by one exactly in the former.
C14_FilterUpdatedOncePerAcceptedSample ==
    /\ (smoothedTiltDeg = Zero /\ acqCount = 0)
    /\ [][IF imuUpdated'
          THEN /\ smoothedTiltDeg' =
                    EmaOf(smoothedTiltDeg,
                          computeTiltMagnitudeDeg(imuData'.ax, imuData'.ay,
                              imuData'.az, isCalibrated', calibrationTiltX',
                              calibrationTiltY'))
               /\ tick' = "accepted"
               /\ acqCount' = IF acqCount < 2 THEN acqCount + 1 ELSE 2
          ELSE /\ UNCHANGED << smoothedTiltDeg, acqCount >>
               /\ tick' # "accepted"]_vars

\* a third reading applied to the value the first two left
C14_Witness ==
    /\ tick = "accepted" /\ iter = 3 /\ acqCount = 2
    /\ imuData = Accel(Fin(0), Fin(0), Fin(1000))
    /\ smoothedTiltDeg =
          FMul(SMOOTH_ALPHA,
               FMul(FSub(One, SMOOTH_ALPHA), F32(FALSE, 11796480, -17)))

\* C15 (steady runs): every update leaves the filter's value between its
\* previous value and the new estimate; so with the value at or below a
\* constant estimate v, fed on every accepted reading, the value never
\* decreases and never exceeds v.
C15_NoOvershoot ==
    [][tick' = "accepted" =>
          LET v == computeTiltMagnitudeDeg(imuData'.ax, imuData'.ay,
                       imuData'.az, isCalibrated', calibrationTiltX',
                       calibrationTiltY')
              old == smoothedTiltDeg
              new == smoothedTiltDeg'
          IN /\ IsFinite(new) /\ IsFinite(v)
             /\ ~FLess(v, old) => (~FLess(new, old) /\ ~FLess(v, new))
             /\ ~FLess(old, v) => (~FLess(new, v) /\ ~FLess(old, new))]_vars

\* a constant 11.31 deg fed for 44 readings and more: the value has climbed
\* above 11.2 deg, within 1% of it, and is still below it
C15_Witness ==
    /\ iter >= 44 /\ tick = "accepted"
    /\ imuData = Accel(Fin(0), Fin(200), Fin(1000))
    /\ FLess(F32(FALSE, 11744051, -20), smoothedTiltDeg)
    /\ FLess(smoothedTiltDeg, F32(FALSE, 11859324, -20))

\* C16 (host runs with stalls of many intervals): an iteration passes the
\* gate only when at least SAMPLE_INTERVAL_MS has elapsed since the previous
\* pass, however long the host stalled before that pass, and it leaves
\* lastSampleMs at its own time (not at a schedule point in the past); an
\* iteration that is gated comes less than SAMPLE_INTERVAL_MS after the
\* previous pass. Times are those read by millis() at the top of loop().
C16_MissedIntervalsAbsorbed ==
    /\ tick \in {"skipped", "accepted"} =>
          /\ elapsedAtGate >= SAMPLE_INTERVAL_MS
          /\ lastSampleMs = now
    /\ tick = "gated" =>
          /\ elapsedAtGate < SAMPLE_INTERVAL_MS
          /\ U32Sub(now, lastSampleMs) = U32(0, elapsedAtGate)

\* a stall of StallMs, one accepted reading on resumption, and the call
\* 10 ms after it gated
C16_Witness ==
    /\ tick = "gated" /\ ~btn /\ iter = 3 /\ elapsedAtGate = 10
    /\ lastSampleMs = U32(0, SPLASH_DELAY_MS + 10 + StallMs)
    /\ acqMs = lastSampleMs /\ acqGap = U32(0, StallMs)


\* C17: between two calls of loop(), lastZone is one of -1, 0, 1, 2; it is
\* -1 (and then the display still shows the splash or the CALIBRATED
\* screen) or it is the zone of the current smoothedTiltDeg; every
\* FullRedraw carries the zone of the magnitude it carries.
C17_LastZoneConsistent ==
    /\ lastZone \in {-1, 0, 1, 2}
    /\ \/ lastZone = -1 /\ screen \in {"SPLASH", "CALIBRATED"}
       \/ lastZone = decideZone(smoothedTiltDeg)
             /\ screen = screenOfZone(lastZone)
    /\ \A k \in DOMAIN render :
          render[k].type = "FullRedraw" =>
              /\ render[k].zone \in {0, 1, 2}
              /\ render[k].zone = decideZone(render[k].mag)

\* the first reading after a calibration drawn as zone 1
C17_Witness ==
    /\ tick = "accepted" /\ lastZone = 1 /\ btn
    /\ render = << CalibrationConfirmed, FullRedraw(1, smoothedTiltDeg) >>

\* C18: a PartialUpdate is emitted only while the display shows the screen
\* drawScreen drew for the same zone, so never over the splash or the
\* CALIBRATED screen, and it is the only render call of its iteration.
C18_PartialOnlyOverOwnZone ==
    \A k \in DOMAIN render :
        render[k].type = "PartialUpdate" =>
            /\ screen = screenOfZone(render[k].zone)
            /\ screen \notin {"SPLASH", "CALIBRATED"}
            /\ ~btn
            /\ render = << PartialUpdate(lastZone, smoothedTiltDeg) >>

\* a second reading in zone 1
C18_Witness ==
    /\ render = << PartialUpdate(1, smoothedTiltDeg) >>
    /\ screen = "MOVING" /\ tick = "accepted"

\* C19 (runs across the wrap of millis()): now - lastSampleMs, taken modulo
\* 2^32, is the time elapsed since the last gate pass, and the iteration is
\* gated exactly when that is less than SAMPLE_INTERVAL_MS, also when now
\* has wrapped below lastSampleMs.
C19_GateCorrectAcrossWrap ==
    [][/\ U32Sub(now', lastSampleMs) = U32(0, elapsedAtGate')
       /\ (tick' = "gated") <=> (elapsedAtGate' < SAMPLE_INTERVAL_MS)
       /\ tick' \in {"gated", "skipped", "accepted"}]_vars

\* a reading accepted after the wrap, a full interval after a pass made
\* before it (now is numerically below the lastSampleMs it is compared with)
C19_Witness ==
    /\ tick = "accepted" /\ ~btn /\ now.hi = 0
    /\ now.lo < SAMPLE_INTERVAL_MS /\ now.lo >= 10
    /\ elapsedAtGate = SAMPLE_INTERVAL_MS

\* C20 (host runs): an iteration that passes the gate and finds no new
\* sensor data sets lastSampleMs to its own time; the sensor is next polled
\* by a tick only in an iteration at least SAMPLE_INTERVAL_MS later, and an
\* iteration sooner than that is gated.
C20_SkippedTickConsumesInterval ==
    [][/\ tick' = "skipped" => (lastSampleMs' = now' /\ ~imuUpdated')
       /\ (tick = "skipped" /\ elapsedAtGate' < SAMPLE_INTERVAL_MS) =>
              (tick' = "gated" /\ lastSampleMs' = lastSampleMs)
       /\ (tick = "skipped" /\ tick' \in {"skipped", "accepted"}) =>
              ~U32Less(U32Sub(now', now), SAMPLE_INTERVAL_MS)]_vars

\* a gated call 10 ms after a skipped tick
C20_Witness ==
    /\ tick = "gated" /\ ~btn /\ elapsedAtGate = 10
    /\ acqCount = 0 /\ imuData = ZeroData
    /\ lastSampleMs = U32(0, SPLASH_DELAY_MS + 10)

====
